---------------------------- MODULE Spec2Model ----------------------------
(***************************************************************************)
(* smartwalle/snowflake: the 41/5/5/12-bit snowflake id generator.         *)
(*                                                                         *)
(* The model follows src/unnamed/part_003 (package snowflake, the variant  *)
(* with New, the decode helpers, the sync.Once singleton and Init).        *)
(*                                                                         *)
(* Numbers.  Go computes on int64.  The model computes on the integers     *)
(* and keeps every value far below 2^31: the clock is bounded by MaxClock  *)
(* milliseconds, so (millisecond - timeOffset) << 22 never comes near the  *)
(* int64 sign bit and no int64 operation of the code wraps on the values   *)
(* the model feeds it.  The bit operations are the two's complement ones   *)
(* (they are defined on negative integers as well).                        *)
(***************************************************************************)
EXTENDS Integers, Sequences, FiniteSets, TLC

(***************************************************************************)
(* Bounds of the model.                                                    *)
(***************************************************************************)
MaxClock == 2        \* the wall clock reads milliseconds 1 .. MaxClock
NumThreads == 2      \* goroutines calling into the package
MaxOpts == 2         \* New is given at most MaxOpts options
MaxTimeField == 510  \* the largest timestamp field of a hand-built id (510 << 22 < 2^31)
MaxCalls == 2        \* where the calls are bounded, a generator returns at most MaxCalls ids
MaxHeap == 2         \* the package-level functions make at most MaxHeap generators
MaxLog == 1          \* how many of the first ids an instance returns the history can keep

(***************************************************************************)
(* Two's complement bit operations on integers (Go's <<, >>, &, |, ^).     *)
(* An integer is read four bits at a time, from the low end: x % 16 is its *)
(* low digit and x \div 16 (the floor) the rest, which ends in 0 for a     *)
(* non-negative integer and in -1 (all ones) for a negative one.  The      *)
(* digit-by-digit recursions are functions on the integers, so that each   *)
(* operand is a value when the recursion goes through it.                  *)
(***************************************************************************)
Shl(x, n) == x * 2^n

\* Go's >> on a signed integer is the arithmetic shift: the floor of x / 2^n.
Shr(x, n) == x \div 2^n

\* Bit i of the digit d.
Bit(d, i) == (d \div 2^i) % 2

\* The three operations on one digit.
AndDigit == [a \in 0 .. 15, b \in 0 .. 15 |->
    Bit(a, 0) * Bit(b, 0) + 2 * Bit(a, 1) * Bit(b, 1)
        + 4 * Bit(a, 2) * Bit(b, 2) + 8 * Bit(a, 3) * Bit(b, 3)]
XorDigit == [a \in 0 .. 15, b \in 0 .. 15 |-> a + b - 2 * AndDigit[a, b]]
OrDigit == [a \in 0 .. 15, b \in 0 .. 15 |-> a + b - AndDigit[a, b]]

AndInt[x \in Int, y \in Int] ==
    IF x = 0 \/ y = 0 THEN 0
    ELSE IF x = -1 THEN y
    ELSE IF y = -1 THEN x
    ELSE AndDigit[x % 16, y % 16] + 16 * AndInt[x \div 16, y \div 16]
And(x, y) == AndInt[x, y]

OrInt[x \in Int, y \in Int] ==
    IF x = 0 THEN y
    ELSE IF y = 0 THEN x
    ELSE IF x = -1 \/ y = -1 THEN -1
    ELSE OrDigit[x % 16, y % 16] + 16 * OrInt[x \div 16, y \div 16]
Or(x, y) == OrInt[x, y]

XorInt[x \in Int, y \in Int] ==
    IF x = 0 THEN y
    ELSE IF y = 0 THEN x
    ELSE IF x = -1 /\ y = -1 THEN 0
    ELSE XorDigit[x % 16, y % 16] + 16 * XorInt[x \div 16, y \div 16]
Xor(x, y) == XorInt[x, y]

\* Go's integer division truncates toward zero.
Quo(a, b) == IF a >= 0 THEN a \div b ELSE -((-a) \div b)

(***************************************************************************)
(* The constants of the layout.                                            *)
(***************************************************************************)
kSequenceBits == 12
kDataCenterBits == 5
kMachineBits == 5

kMaxSequence == Xor(-1, Shl(-1, kSequenceBits))
kMaxDataCenter == Xor(-1, Shl(-1, kDataCenterBits))
kMaxMachine == Xor(-1, Shl(-1, kMachineBits))

kTimeShift == kDataCenterBits + kMachineBits + kSequenceBits
kDataCenterShift == kMachineBits + kSequenceBits
kMachineShift == kSequenceBits

kDataCenterMask == Shl(kMaxDataCenter, kDataCenterShift)
kMachineMask == Shl(kMaxMachine, kSequenceBits)

\* time.Now().UnixNano() counts nanoseconds; getMillisecond divides by 1e6.
NanosPerMilli == 1000000


(***************************************************************************)
(* Errors and options.                                                     *)
(***************************************************************************)
Nil == "nil"
ErrDataCenterNotAllowed ==
    "snowflake: data center can't be greater than 31 or less than 0"
ErrWorkerNotAllowed ==
    "snowflake: worker can't be greater than 31 or less than 0"

\* A time.Time: the zero time (IsZero), or the instant UnixNano() = nanos.
ZeroTime == [isZero |-> TRUE, nanos |-> 0]
TimeAt(nanos) == [isZero |-> FALSE, nanos |-> nanos]

\* An Option is the closure an option constructor returns: its kind and the
\* argument it captured.
WithDataCenter(dataCenter) ==
    [kind |-> "WithDataCenter", arg |-> dataCenter, t |-> ZeroTime]
WithMachine(machine) ==
    [kind |-> "WithMachine", arg |-> machine, t |-> ZeroTime]
WithTimeOffset(t) ==
    [kind |-> "WithTimeOffset", arg |-> 0, t |-> t]

\* Mutant: the lower bound of the machine id is not tested.
MachineNotAllowedNoLower(machine) == machine > kMaxMachine

\* The range tests of WithDataCenter and WithMachine.
DataCenterNotAllowed(dataCenter) == dataCenter < 0 \/ dataCenter > kMaxDataCenter
MachineNotAllowed(machine) == machine < 0 \/ machine > kMaxMachine

\* opt.Apply(s): the error, and s as the option leaves it.
Apply(opt, s) ==
    CASE opt.kind = "WithDataCenter" ->
           IF DataCenterNotAllowed(opt.arg)
           THEN [err |-> ErrDataCenterNotAllowed, s |-> s]
           ELSE [err |-> Nil, s |-> [s EXCEPT !.dataCenter = opt.arg]]
      [] opt.kind = "WithMachine" ->
           IF MachineNotAllowed(opt.arg)
           THEN [err |-> ErrWorkerNotAllowed, s |-> s]
           ELSE [err |-> Nil, s |-> [s EXCEPT !.machine = opt.arg]]
      [] opt.kind = "WithTimeOffset" ->
           IF opt.t.isZero
           THEN [err |-> Nil, s |-> s]
           ELSE [err |-> Nil,
                 s |-> [s EXCEPT !.timeOffset = Quo(opt.t.nanos, NanosPerMilli)]]

(***************************************************************************)
(* type SnowFlake and New.  mu is 0 when unlocked, else the goroutine that *)
(* holds it.                                                               *)
(***************************************************************************)
ZeroSnowFlake ==
    [mu |-> 0, millisecond |-> 0, dataCenter |-> 0, machine |-> 0,
     sequence |-> 0, timeOffset |-> 0]

\* The loop of New over opts[k..]: stops at the first option that fails.
RECURSIVE ApplyFrom(_, _, _)
ApplyFrom(s, opts, k) ==
    IF k > Len(opts) THEN [err |-> Nil, s |-> s]
    ELSE LET r == Apply(opts[k], s)
         IN  IF r.err # Nil THEN r ELSE ApplyFrom(r.s, opts, k + 1)

\* New(opts...): (sf, err).  ok tells whether sf is a generator (not nil).
New(opts) ==
    LET r == ApplyFrom(ZeroSnowFlake, opts, 1)
    IN  IF r.err # Nil
        THEN [ok |-> FALSE, sf |-> ZeroSnowFlake, err |-> r.err]
        ELSE [ok |-> TRUE, sf |-> r.s, err |-> Nil]

(***************************************************************************)
(* The pieces of SnowFlake.Next.                                           *)
(***************************************************************************)
\* Mutant: the regression test is off by one millisecond.
ClockRegressedOffByOne(millisecond, s) == millisecond + 1 < s.millisecond

\* "if millisecond < this.millisecond": the clock moved backward.
ClockRegressed(millisecond, s) == millisecond < s.millisecond

\* Mutant: the regression test comes after the millisecond is recorded.
AfterRegressionStamped(s, millisecond) == [s EXCEPT !.millisecond = millisecond]

\* The generator as the regression branch leaves it: "return -1" comes before
\* every assignment of Next.
AfterRegression(s, millisecond) == s

\* Mutant: the mask is one bit short.
NextSequenceShortMask(s) == And(s.sequence + 1, Shr(kMaxSequence, 1))

\* "(this.sequence + 1) & kMaxSequence"
NextSequence(s) == And(s.sequence + 1, kMaxSequence)

\* Mutant: the loop test is the wrong way round.
KeepWaitingWhileAhead(mill, s) == mill > s.millisecond

\* Mutant: the loop goes on while the clock is not behind.
KeepWaitingWhileNotBehind(mill, s) == mill >= s.millisecond

\* The loop condition of getNextMillisecond: "for mill < this.millisecond".
KeepWaiting(mill, s) == mill < s.millisecond

\* Mutant: the delta is taken the wrong way round.
EncodeDeltaReversed(millisecond, s) ==
    Or(Or(Or(Shl(s.timeOffset - millisecond, kTimeShift),
             Shl(s.dataCenter, kDataCenterShift)),
          Shl(s.machine, kMachineShift)),
       s.sequence)

\* Mutant: the machine id is shifted to the data center's place.
EncodeMachineMisplaced(millisecond, s) ==
    Or(Or(Or(Shl(millisecond - s.timeOffset, kTimeShift),
             Shl(s.dataCenter, kDataCenterShift)),
          Shl(s.machine, kDataCenterShift)),
       s.sequence)

\* The id Next builds from the millisecond it stamps and the generator.
Encode(millisecond, s) ==
    Or(Or(Or(Shl(millisecond - s.timeOffset, kTimeShift),
             Shl(s.dataCenter, kDataCenterShift)),
          Shl(s.machine, kMachineShift)),
       s.sequence)

(***************************************************************************)
(* The decode helpers.                                                     *)
(***************************************************************************)
\* Mutant: DataCenter shifts without masking.
DataCenterUnmasked(s) == Shr(s, kDataCenterShift)

Time(s) == Shr(s, kTimeShift)
DataCenter(s) == Shr(And(s, kDataCenterMask), kDataCenterShift)

\* Mutant: Machine shifts by the data center's shift.
MachineWrongShift(s) == Shr(And(s, kMachineMask), kDataCenterShift)

Machine(s) == Shr(And(s, kMachineMask), kMachineShift)
Sequence(s) == And(s, kMaxSequence)

(***************************************************************************)
(* The state.                                                              *)
(***************************************************************************)
VARIABLES
    now,               \* the wall clock: what time.Now().UnixNano() returns
    sf,                \* the SnowFlake objects made so far; a pointer is an index, 0 is nil
    pc,                \* where each goroutine is
    frame,             \* the locals of each goroutine's call
    once,              \* var once sync.Once
    defaultSnowFlake,  \* var defaultSnowFlake *SnowFlake
    crashed,           \* the process died (a panic or a runtime fatal error)
    last,              \* history: the SnowFlake.Next call that returned last
    hist,              \* history, per object: the first ids returned, their number, the latest
    input,             \* the argument of a function applied on its own
    output,            \* and its result
    pkg                \* history: the package-level calls that have returned

vars == <<now, sf, pc, frame, once, defaultSnowFlake, crashed, last, hist,
          input, output, pkg>>

Threads == 1 .. NumThreads
ClockValues == {c * NanosPerMilli : c \in 1 .. MaxClock}

\* this: the receiver of the method call; obs, seq0: the millisecond Next read
\* and the sequence it found; op, opts, err: the package-level function called,
\* its options and its err; seen: defaultSnowFlake as it was when the call began;
\* waited: getNextMillisecond read a millisecond below the recorded one and
\* went round its loop; ms0: the millisecond Next found recorded; spun: Next
\* called getNextMillisecond; loaded: the fields Next has loaded for the id
\* while the other loads of line 120 are still to come, with their values;
\* awoke, starving, waits, old, ticket: the locals of once.m.Lock() and
\* once.m.Unlock() (waits counts the calls of the semaphore, up to 2; old is
\* the state or the delta the call computed); zero: the fields of once that
\* Init's "once = sync.Once{}" has still to write.
ZeroFrame ==
    [this |-> 0, obs |-> 0, seq0 |-> 0, op |-> "", opts |-> <<>>, err |-> Nil,
     seen |-> 0, waited |-> FALSE, ms0 |-> 0, spun |-> FALSE, loaded |-> {},
     awoke |-> FALSE, starving |-> "no", waits |-> 0, old |-> 0,
     ticket |-> FALSE, zero |-> {}]
\* sync.Once is {done, m}, sync.Mutex is {state, sema}.  asleep is not a field
\* of the Once: it is the runtime's queue of the goroutines parked on
\* &once.m.sema, which the zeroing of once leaves as it is.
ZeroOnce == [done |-> 0, m |-> [state |-> 0, sema |-> 0], asleep |-> <<>>]
NoCall ==
    [inst |-> 0, ok |-> FALSE, ret |-> 0, obs |-> 0, stamped |-> 0, prevMs |-> 0,
     prevSeq |-> 0, spun |-> FALSE, waited |-> FALSE, nth |-> 0,
     hasPrev |-> FALSE, prev |-> 0,
     left |-> [millisecond |-> 0, sequence |-> 0], run |-> 0,
     gen |-> ZeroSnowFlake]
\* No package-level call has returned.  failed: the package-level call that
\* returned last was an Init that returned an error; init: the Init call that
\* returned last (its options, its error, whether defaultSnowFlake was nil
\* when it began, whether it is the retry of a failed Init); conf: the valid
\* options of the last such retry.
NoPkg == [failed |-> FALSE, init |-> <<>>, conf |-> <<>>]
\* The calls of a fresh generator are counted as one run while each of them
\* reads the same millisecond, up to the call after the sequence has gone
\* through all its values.
LongestRun == kMaxSequence + 2
NoRun == [n |-> 0, millisecond |-> 0, on |-> TRUE]
RunOver == [n |-> 0, millisecond |-> 0, on |-> FALSE]

\* The run r after a call that read the millisecond obs.
RunAfter(r, obs) ==
    IF ~r.on THEN RunOver
    ELSE IF r.n = 0 THEN [n |-> 1, millisecond |-> obs, on |-> TRUE]
    ELSE IF obs = r.millisecond /\ r.n < LongestRun
    THEN [r EXCEPT !.n = r.n + 1]
    ELSE RunOver

\* The (dataCenter, machine) pair of the generator g.
Identity(g) == [dataCenter |-> g.dataCenter, machine |-> g.machine]

\* The history of an object that keeps the first cap ids it returns; left is
\* the millisecond and the sequence the call that returned last left in it,
\* built the identity New gave the object, applied whether Option.Apply has
\* been called on the object since New returned it.
NoHist(cap) ==
    [cap |-> cap, first |-> <<>>, n |-> 0, some |-> FALSE, latest |-> 0,
     left |-> [millisecond |-> 0, sequence |-> 0], run |-> NoRun,
     built |-> Identity(ZeroSnowFlake), applied |-> FALSE]

\* The history of the generator g, just made by New.
HistOf(cap, g) == [NoHist(cap) EXCEPT !.built = Identity(g)]

\* this.getMillisecond()
GetMillisecond == Quo(now, NanosPerMilli)

(***************************************************************************)
(* The wall clock.                                                         *)
(***************************************************************************)
Tick ==
    /\ now + NanosPerMilli \in ClockValues
    /\ now' = now + NanosPerMilli
    /\ UNCHANGED <<sf, pc, frame, once, defaultSnowFlake, crashed, last, hist,
                   input, output, pkg>>

\* The clock is set back (an NTP correction).
ClockBack ==
    /\ \E c \in ClockValues : c < now /\ now' = c
    /\ UNCHANGED <<sf, pc, frame, once, defaultSnowFlake, crashed, last, hist,
                   input, output, pkg>>

(***************************************************************************)
(* SnowFlake.Next on the object p, by goroutine t.                         *)
(***************************************************************************)
\* Mutant: Lock does not wait for the mutex to be free.
LockNoExclusion(t, p) ==
    /\ ~crashed
    /\ p \in DOMAIN sf
    /\ sf' = [sf EXCEPT ![p].mu = t]
    /\ pc' = [pc EXCEPT ![t] = "read"]
    /\ frame' = [frame EXCEPT ![t].this = p]
    /\ UNCHANGED <<now, once, defaultSnowFlake, crashed, last, hist, input, output, pkg>>

\* this.mu.Lock(): t gets the mutex of p when it is free.
Lock(t, p) ==
    /\ ~crashed
    /\ p \in DOMAIN sf
    /\ sf[p].mu = 0
    /\ sf' = [sf EXCEPT ![p].mu = t]
    /\ pc' = [pc EXCEPT ![t] = "read"]
    /\ frame' = [frame EXCEPT ![t].this = p]
    /\ UNCHANGED <<now, once, defaultSnowFlake, crashed, last, hist, input, output, pkg>>

\* Goroutines have no identity in the program: of the idle ones, the one
\* with the lowest number makes the next method call.
FirstIdle(t) ==
    /\ pc[t] = "idle"
    /\ \A u \in Threads : u < t => pc[u] # "idle"

\* A call of the method p.Next() by a goroutine that holds p.
MethodNext(t, p) ==
    /\ FirstIdle(t)
    /\ Lock(t, p)

\* The call returns: the deferred Unlock runs, the caller gets ret.
\* s is the object as the call leaves it, c what the call saw.  In last,
\* left is what the call that returned before this one left in the object,
\* run the place of this call in the run of the object (0 when it is in none),
\* gen the object with the fields as the call loaded them for the id.
Return(t, p, s, ok, ret, c) ==
    LET h == hist[p]
        nth == IF h.n < h.cap + 1 THEN h.n + 1 ELSE h.n
    IN  /\ sf' = [sf EXCEPT ![p] = [s EXCEPT !.mu = 0]]
        /\ pc' = [pc EXCEPT ![t] = "idle"]
        /\ frame' = [frame EXCEPT ![t] = ZeroFrame]
        /\ last' = [inst |-> p, ok |-> ok, ret |-> ret, obs |-> c.obs,
                    stamped |-> s.millisecond,
                    prevMs |-> c.prevMs, prevSeq |-> c.prevSeq, spun |-> c.spun,
                    waited |-> c.waited,
                    nth |-> IF ok THEN nth ELSE 0,
                    hasPrev |-> h.some, prev |-> h.latest, left |-> h.left,
                    run |-> RunAfter(h.run, c.obs).n,
                    gen |-> [c.gen EXCEPT !.mu = 0]]
        /\ hist' = [hist EXCEPT ![p] =
                       [cap |-> h.cap,
                        first |-> IF ok /\ h.n < h.cap THEN Append(h.first, ret)
                                  ELSE h.first,
                        n |-> IF ok THEN nth ELSE h.n,
                        some |-> ok \/ h.some,
                        latest |-> IF ok THEN ret ELSE h.latest,
                        left |-> [millisecond |-> s.millisecond,
                                  sequence |-> s.sequence],
                        run |-> RunAfter(h.run, c.obs),
                        built |-> h.built, applied |-> h.applied]]
        /\ pkg' = IF frame[t].op = "Next" THEN [pkg EXCEPT !.failed = FALSE]
                   ELSE pkg
        /\ UNCHANGED <<now, once, defaultSnowFlake, crashed, input, output>>

\* "this.millisecond = millisecond": the last write of Next.  What follows
\* is the expression of the id, which loads this.timeOffset,
\* this.dataCenter and this.machine one after the other.
Stamp(t, p, s, millisecond, c) ==
    /\ sf' = [sf EXCEPT ![p] = [s EXCEPT !.millisecond = millisecond]]
    /\ pc' = [pc EXCEPT ![t] = "encode"]
    /\ frame' = [frame EXCEPT ![t].obs = c.obs, ![t].seq0 = c.prevSeq,
                              ![t].ms0 = c.prevMs, ![t].spun = c.spun,
                              ![t].waited = c.waited, ![t].loaded = {}]
    /\ UNCHANGED <<now, once, defaultSnowFlake, crashed, last, hist, input,
                   output, pkg>>

\* From the clock read of Next to "this.millisecond = millisecond", to the
\* return of -1, or to the call of getNextMillisecond when the sequence
\* wrapped.
NextRead(t) ==
    /\ pc[t] = "read"
    /\ LET p == frame[t].this
           s == sf[p]
           millisecond == GetMillisecond
           c == [obs |-> millisecond, prevMs |-> s.millisecond,
                 prevSeq |-> s.sequence, spun |-> FALSE, waited |-> FALSE,
                 gen |-> s]
       IN  IF ClockRegressed(millisecond, s)
           THEN Return(t, p, AfterRegression(s, millisecond), FALSE, -1, c)
           ELSE IF s.millisecond = millisecond
           THEN LET s1 == [s EXCEPT !.sequence = NextSequence(s)]
                IN  IF s1.sequence = 0
                    THEN /\ sf' = [sf EXCEPT ![p] = s1]
                         /\ pc' = [pc EXCEPT ![t] = "spin"]
                         /\ frame' = [frame EXCEPT ![t].obs = millisecond,
                                                   ![t].seq0 = s.sequence]
                         /\ UNCHANGED <<now, once, defaultSnowFlake, crashed,
                                        last, hist, input, output, pkg>>
                    ELSE Stamp(t, p, s1, millisecond, c)
           ELSE Stamp(t, p, [s EXCEPT !.sequence = 0], millisecond, c)

\* One clock read of getNextMillisecond: read again while the loop condition
\* holds, else return the millisecond to Next, which stamps it.
Spin(t) ==
    /\ pc[t] = "spin"
    /\ LET p == frame[t].this
           s == sf[p]
           mill == GetMillisecond
           c == [obs |-> frame[t].obs, prevMs |-> s.millisecond,
                 prevSeq |-> frame[t].seq0, spun |-> TRUE,
                 waited |-> frame[t].waited]
       IN  IF KeepWaiting(mill, s)
           THEN /\ frame' = [frame EXCEPT ![t].waited = TRUE]
                /\ UNCHANGED <<now, sf, pc, once, defaultSnowFlake, crashed,
                               last, hist, input, output, pkg>>
           ELSE Stamp(t, p, s, mill, c)

\* The generator s with the fields as the call of t loads them: a field in
\* frame[t].loaded has the value recorded there, the others are loaded now.
Loaded(t, s) ==
    LET Value(field) ==
            IF \E e \in frame[t].loaded : e[1] = field
            THEN (CHOOSE e \in frame[t].loaded : e[1] = field)[2]
            ELSE s[field]
    IN  [s EXCEPT !.timeOffset = Value("timeOffset"),
                  !.dataCenter = Value("dataCenter"),
                  !.machine = Value("machine")]

\* The rest of the loads of line 120, the id, "return id".
NextEncode(t) ==
    /\ pc[t] = "encode"
    /\ LET p == frame[t].this
           s == sf[p]
           g == Loaded(t, s)
           c == [obs |-> frame[t].obs, prevMs |-> frame[t].ms0,
                 prevSeq |-> frame[t].seq0, spun |-> frame[t].spun,
                 waited |-> frame[t].waited, gen |-> g]
       IN  Return(t, p, s, TRUE, Encode(s.millisecond, g), c)

(***************************************************************************)
(* Option.Apply on a generator in use.  Apply is an exported method of the *)
(* Option interface, so a caller that holds a generator can apply an       *)
(* option to it at any time: the option writes its field (dataCenter,      *)
(* machine or timeOffset) without taking this.mu, also while a call of     *)
(* Next holds it.  An option out of range and the zero time write nothing. *)
(* Next loads the three fields one after the other when it builds the id   *)
(* (line 120), in an order the build chooses, so a write that comes while  *)
(* Next is there falls after the load of its field or before it, each      *)
(* field on its own: in the first case the value Next has loaded is kept   *)
(* in the frame of the call.                                               *)
(***************************************************************************)
\* The field the option writes.
FieldOf(opt) ==
    IF opt.kind = "WithDataCenter" THEN "dataCenter"
    ELSE IF opt.kind = "WithMachine" THEN "machine"
    ELSE "timeOffset"

ApplyTo(p, opt) ==
    /\ ~crashed
    /\ p \in DOMAIN sf
    /\ LET s == Apply(opt, sf[p]).s
           field == FieldOf(opt)
           Loading(t) ==
               /\ pc[t] = "encode"
               /\ frame[t].this = p
               /\ s # sf[p]
               /\ \A e \in frame[t].loaded : e[1] # field
       IN  /\ sf' = [sf EXCEPT ![p] = s]
           /\ \E after \in {FALSE} \cup {\E t \in Threads : Loading(t)} :
                 frame' = IF after
                          THEN [t \in Threads |->
                                   IF Loading(t)
                                   THEN [frame[t] EXCEPT
                                           !.loaded = @ \cup {<<field, sf[p][field]>>}]
                                   ELSE frame[t]]
                          ELSE frame
    /\ hist' = [hist EXCEPT ![p].applied = TRUE]
    /\ UNCHANGED <<now, pc, once, defaultSnowFlake, crashed, last, input,
                   output, pkg>>

\* The option applied to the generator in use.
LiveOptions == {WithDataCenter(19)}

(***************************************************************************)
(* Spec: one generator, made by New, used through its method by the        *)
(* goroutines for as long as they like, under any clock, and to which its  *)
(* holder applies options while it is in use.                              *)
(***************************************************************************)
Configs ==
    { <<>>,
      <<WithDataCenter(19), WithMachine(21),
        WithTimeOffset(TimeAt(2 * NanosPerMilli + 1))>> }

InitShared ==
    /\ pc = [t \in Threads |-> "idle"]
    /\ frame = [t \in Threads |-> ZeroFrame]
    /\ once = ZeroOnce
    /\ defaultSnowFlake = 0
    /\ crashed = FALSE
    /\ last = NoCall
    /\ pkg = NoPkg

\* One generator, whose history keeps the first cap ids.
InitGenerator(cap) ==
    /\ now \in ClockValues
    /\ \E opts \in Configs :
          /\ sf = <<New(opts).sf>>
          /\ hist = <<HistOf(cap, New(opts).sf)>>
    /\ InitShared
    /\ input = <<>>
    /\ output = <<>>

Init == InitGenerator(0)

Next ==
    \/ Tick
    \/ ClockBack
    \/ \E opt \in LiveOptions : ApplyTo(1, opt)
    \/ \E t \in Threads : MethodNext(t, 1)
    \/ \E t \in Threads : NextRead(t)
    \/ \E t \in Threads : Spin(t)
    \/ \E t \in Threads : NextEncode(t)

Spec == Init /\ [][Next]_vars

\* The same, under a clock that is never set back.
NextMono ==
    \/ Tick
    \/ \E opt \in LiveOptions : ApplyTo(1, opt)
    \/ \E t \in Threads : MethodNext(t, 1)
    \/ \E t \in Threads : NextRead(t)
    \/ \E t \in Threads : Spin(t)
    \/ \E t \in Threads : NextEncode(t)

SpecMono == Init /\ [][NextMono]_vars

\* Spec, with the first MaxLog ids of the generator kept in the history.
InitLog == InitGenerator(MaxLog)

SpecLog == InitLog /\ [][Next]_vars

(***************************************************************************)
(* What the last call says.                                                *)
(***************************************************************************)
\* The generator the last call ran on, as the call left it.
LastGen == last.gen

\* A call has returned / has returned an id (not the sentinel).
Returned == last.inst # 0
ReturnedId == last.inst # 0 /\ last.ok

\* The ids the generator of the last call returned before that call, as far
\* as the history keeps them.
EarlierIds ==
    {hist[last.inst].first[k] :
        k \in {j \in 1 .. Len(hist[last.inst].first) : j # last.nth}}

\* The millisecond delta the last call encoded.
LastDelta == last.stamped - LastGen.timeOffset

(***************************************************************************)
(* C1.  Uniqueness within one generator: no call returns an id that an     *)
(* earlier call on the same generator returned.                            *)
(***************************************************************************)
C1_UniqueIds == ReturnedId => last.ret \notin EarlierIds

(***************************************************************************)
(* C2.  Monotonicity: under a clock that is never set back and with a      *)
(* non-negative millisecond delta, every id a generator returns is         *)
(* strictly greater than the id it returned before (and so, step by step,  *)
(* than every id it returned before).                                      *)
(***************************************************************************)
C2_StrictlyIncreasing ==
    (ReturnedId /\ last.hasPrev
        /\ last.prevMs - LastGen.timeOffset >= 0 /\ LastDelta >= 0)
        => last.ret > last.prev

(***************************************************************************)
(* C3.  Sequence exhaustion: a call that sees the last recorded            *)
(* millisecond and wraps the sequence to 0 returns only after the clock    *)
(* read a strictly later millisecond; its id has sequence 0 and a          *)
(* timestamp field above that of the ids of the exhausted millisecond.     *)
(***************************************************************************)
C3_ExhaustionWaitsForNextMillisecond ==
    (ReturnedId /\ last.spun)
        => /\ last.stamped > last.prevMs
           /\ Sequence(last.ret) = 0
           /\ Time(last.ret) > Time(last.prev)

(***************************************************************************)
(* C4.  Clock regression: a call whose clock read is below the last        *)
(* recorded millisecond returns exactly -1, at once (it never enters the   *)
(* wait of getNextMillisecond).                                            *)
(***************************************************************************)
C4_RegressionReturnsSentinel ==
    /\ (Returned /\ last.obs < last.prevMs)
          => (~last.ok /\ last.ret = -1 /\ ~last.spun)
    /\ \A t \in Threads :
          pc[t] = "spin" => frame[t].obs >= sf[frame[t].this].millisecond

C4_Witness == Returned /\ last.obs < last.prevMs /\ last.prevSeq > 0

(***************************************************************************)
(* C5.  Sentinel distinctness: an id returned by a call that detected no   *)
(* regression is non-negative (so it is not -1), when dataCenter and       *)
(* machine are in 0..31 and the millisecond delta is non-negative.         *)
(***************************************************************************)
C5_IdsNonNegative ==
    (ReturnedId /\ LastDelta >= 0
        /\ LastGen.dataCenter \in 0 .. 31 /\ LastGen.machine \in 0 .. 31)
        => (last.ret >= 0 /\ last.ret # -1)

C5_Witness ==
    /\ ReturnedId /\ LastDelta >= 0
    /\ LastGen.dataCenter = 19 /\ LastGen.machine = 21
    /\ Sequence(last.ret) = kMaxSequence

(***************************************************************************)
(* C7.  Round trip of the identity: every id Next returns decodes to the   *)
(* dataCenter and the machine the generator that returned it was           *)
(* constructed with, whatever calls of Next came before and whatever the   *)
(* clock read.  The calls the property ranges over are those of Next: it   *)
(* speaks of a generator on which Option.Apply has not been called since   *)
(* New returned it.                                                        *)
(***************************************************************************)
C7_DecodeIdentity ==
    (ReturnedId /\ ~hist[last.inst].applied)
        => /\ DataCenter(last.ret) = hist[last.inst].built.dataCenter
           /\ Machine(last.ret) = hist[last.inst].built.machine

\* The generator built with data center 19 and machine 21 returns the last
\* id of a millisecond, after earlier calls.
C7_Witness ==
    /\ ReturnedId /\ last.hasPrev /\ ~hist[last.inst].applied
    /\ hist[last.inst].built = [dataCenter |-> 19, machine |-> 21]
    /\ Sequence(last.ret) = kMaxSequence

(***************************************************************************)
(* SpecNew: New applied to a list of options.                              *)
(***************************************************************************)
\* No generator, no goroutine: the state of the specifications that apply a
\* function on its own.
InitNothing ==
    /\ now = NanosPerMilli
    /\ sf = <<>>
    /\ hist = <<>>
    /\ InitShared

DataCenterArgs == {-1, 0, 19, kMaxDataCenter, kMaxDataCenter + 1}
MachineArgs == {-1, 0, 21, kMaxMachine, kMaxMachine + 1}
TimeArgs == {ZeroTime, TimeAt(NanosPerMilli + 1)}

Options ==
    {WithDataCenter(v) : v \in DataCenterArgs}
        \cup {WithMachine(v) : v \in MachineArgs}
        \cup {WithTimeOffset(t) : t \in TimeArgs}

OptionLists == UNION {[1 .. n -> Options] : n \in 0 .. MaxOpts}

InitNew ==
    /\ InitNothing
    /\ input \in OptionLists
    /\ output = <<>>

CallNew ==
    /\ output = <<>>
    /\ output' = <<New(input)>>
    /\ UNCHANGED <<now, sf, pc, frame, once, defaultSnowFlake, crashed, last,
                   hist, input, pkg>>

NextNew == CallNew

SpecNew == InitNew /\ [][NextNew]_vars

(***************************************************************************)
(* C6.  Range validity of construction: New succeeds, with a generator     *)
(* that carries the ids supplied, when every dataCenter and machine value  *)
(* supplied is in 0..31; when one is not, wherever it stands, New returns  *)
(* a configuration error and no generator.                                 *)
(***************************************************************************)
\* The option supplies a dataCenter or machine value outside 0..31.
OutOfRange(opt) ==
    opt.kind \in {"WithDataCenter", "WithMachine"} /\ opt.arg \notin 0 .. 31

\* The first option that is out of range, and the error that names its field.
FirstOutOfRange(opts) ==
    CHOOSE k \in 1 .. Len(opts) :
        OutOfRange(opts[k]) /\ \A j \in 1 .. k - 1 : ~OutOfRange(opts[j])
ErrorOf(opt) ==
    IF opt.kind = "WithDataCenter" THEN ErrDataCenterNotAllowed
    ELSE ErrWorkerNotAllowed

\* The value the last option of this kind supplies, 0 when there is none.
Supplied(opts, kind) ==
    LET ks == {k \in 1 .. Len(opts) : opts[k].kind = kind}
    IN  IF ks = {} THEN 0
        ELSE opts[CHOOSE k \in ks : \A j \in ks : j <= k].arg

C6_NewRangeValidity ==
    output # <<>> =>
        LET r == output[1]
        IN  IF \E k \in 1 .. Len(input) : OutOfRange(input[k])
            THEN /\ ~r.ok
                 /\ r.err = ErrorOf(input[FirstOutOfRange(input)])
            ELSE /\ r.ok
                 /\ r.err = Nil
                 /\ r.sf.dataCenter = Supplied(input, "WithDataCenter")
                 /\ r.sf.machine = Supplied(input, "WithMachine")

\* A bad machine id after a good data center id: no generator.
C6_Witness ==
    /\ output # <<>>
    /\ Len(input) = 2
    /\ input[1] = WithDataCenter(19)
    /\ input[2] = WithMachine(-1)
    /\ ~output[1].ok

(***************************************************************************)
(* SpecDecode: the decode helpers applied to an id built by hand.          *)
(***************************************************************************)
TimeFields == {0, 1, MaxTimeField}
SequenceFields == {0, 1, 2730, kMaxSequence}

\* t<<22 | dc<<17 | w<<12 | s, the documented layout.
HandBuilt(t, dc, w, s) == Or(Or(Or(Shl(t, 22), Shl(dc, 17)), Shl(w, 12)), s)

InitDecode ==
    /\ InitNothing
    /\ input \in [t : TimeFields, dc : 0 .. 31, w : 0 .. 31, s : SequenceFields]
    /\ output = <<>>

CallDecode ==
    /\ output = <<>>
    /\ LET id == HandBuilt(input.t, input.dc, input.w, input.s)
       IN  output' = <<[t |-> Time(id), dc |-> DataCenter(id),
                        w |-> Machine(id), s |-> Sequence(id)]>>
    /\ UNCHANGED <<now, sf, pc, frame, once, defaultSnowFlake, crashed, last,
                   hist, input, pkg>>

NextDecode == CallDecode

SpecDecode == InitDecode /\ [][NextDecode]_vars

(***************************************************************************)
(* C8.  Decode of a hand-built id: Time, DataCenter, Machine and Sequence  *)
(* of t<<22 | dc<<17 | w<<12 | s are t, dc, w and s.                       *)
(***************************************************************************)
C8_DecodeHandBuilt == output # <<>> => output[1] = input

C8_Witness ==
    /\ output # <<>>
    /\ input = [t |-> MaxTimeField, dc |-> 31, w |-> 21, s |-> kMaxSequence]

(***************************************************************************)
(* SpecPair: two generators, each made by New with its own identity, used  *)
(* by the goroutines in any order under one clock, and to one of which its *)
(* holder applies an option while it is in use.  Each returns at most      *)
(* MaxCalls ids, all kept in its history; within that many calls the       *)
(* sequence cannot wrap, so getNextMillisecond is never entered.           *)
(***************************************************************************)
Identities == {<<0, 0>>, <<0, 1>>, <<1, 0>>}

WithIdentity(id) == <<WithDataCenter(id[1]), WithMachine(id[2])>>

InitPair ==
    /\ now \in ClockValues
    /\ \E a \in Identities, b \in Identities :
          /\ sf = <<New(WithIdentity(a)).sf, New(WithIdentity(b)).sf>>
          /\ hist = <<HistOf(MaxCalls, sf[1]), HistOf(MaxCalls, sf[2])>>
    /\ InitShared
    /\ input = <<>>
    /\ output = <<>>

\* The generator may still be called.
CallsLeft(p) == hist[p].n < hist[p].cap

\* The option applied to a generator of the pair in use.  It is applied to
\* the first: the two are made with every pair of identities in both orders.
PairOptions == {WithMachine(0)}

NextPair ==
    \/ Tick
    \/ ClockBack
    \/ \E opt \in PairOptions : ApplyTo(1, opt)
    \/ \E t \in Threads, p \in {1, 2} : CallsLeft(p) /\ MethodNext(t, p)
    \/ \E t \in Threads : NextRead(t)
    \/ \E t \in Threads : NextEncode(t)

SpecPair == InitPair /\ [][NextPair]_vars

\* The ids the generator p has returned.
IdsOf(p) == {hist[p].first[k] : k \in 1 .. Len(hist[p].first)}

(***************************************************************************)
(* C9.  Cross-instance uniqueness: two generators configured with distinct *)
(* (dataCenter, machine) pairs never return the same id, whatever the      *)
(* order of their calls of Next and the clock, also for the same           *)
(* millisecond and sequence on both.  The interleavings the property       *)
(* ranges over are those of calls of Next and readings of the clock: it    *)
(* speaks of two generators on which Option.Apply has not been called      *)
(* since New returned them.                                                *)
(***************************************************************************)
C9_DistinctIdentitiesDistinctIds ==
    (hist[1].built # hist[2].built /\ ~hist[1].applied /\ ~hist[2].applied)
        => IdsOf(1) \cap IdsOf(2) = {}

\* Both returned an id for the same millisecond and sequence.
C9_Witness ==
    /\ hist[1].built # hist[2].built /\ ~hist[1].applied /\ ~hist[2].applied
    /\ \E a \in IdsOf(1), b \in IdsOf(2) :
          /\ Time(a) = Time(b)
          /\ Sequence(a) = Sequence(b)
          /\ Sequence(a) = 1

(***************************************************************************)
(* The process-wide default generator: defaultSnowFlake, once, the         *)
(* package-level Next and Init.                                            *)
(*                                                                         *)
(* once.Do(f) is sync.Once.Do:                                             *)
(*     if o.done.Load() == 0 { o.doSlow(f) }                               *)
(*     doSlow: o.m.Lock(); defer o.m.Unlock()                              *)
(*             if o.done.Load() == 0 { defer o.done.Store(1); f() }        *)
(* Each memory operation is a step of its own: the two loads of done, the  *)
(* operations of the lock on m.state and m.sema, the closure's write of    *)
(* defaultSnowFlake, the store, the operations of the unlock.              *)
(* Init's "once = sync.Once{}" overwrites done, m.state and m.sema with    *)
(* plain stores and no synchronisation, whatever other goroutines are      *)
(* doing in once.Do; the stores come one at a time, in an order the build  *)
(* chooses, and the steps below are the places they can fall between.      *)
(*                                                                         *)
(* sync.Mutex (Go's standard library):                                     *)
(*     Lock:   if CAS(&state, 0, mutexLocked) { return }; lockSlow()       *)
(*     lockSlow: for { spin while locked, flagging mutexWoken;             *)
(*                 new := old | mutexLocked (unless starving),             *)
(*                        one waiter more if old is locked or starving;    *)
(*                 if awoke { if new&mutexWoken == 0 { throw(...) };       *)
(*                            new &^= mutexWoken }                         *)
(*                 if CAS(&state, old, new) {                              *)
(*                     if old was neither locked nor starving { break }    *)
(*                     runtime_SemacquireMutex(&sema, queueLifo)           *)
(*                     old = state; hand-over if old is starving, else     *)
(*                     awoke = true } else { old = state } }               *)
(*     Unlock: new := AddInt32(&state, -mutexLocked)                       *)
(*             if new != 0 { unlockSlow(new) }                             *)
(*     unlockSlow: fatal("sync: unlock of unlocked mutex") if it was not   *)
(*                 locked; when there is a waiter and no bit is set,       *)
(*                 CAS(&state, old, (old - 1<<3) | mutexWoken) and         *)
(*                 runtime_Semrelease(&sema); in starvation mode           *)
(*                 runtime_Semrelease(&sema, handoff).                     *)
(* A load of state followed by a CAS that succeeds is one step, at the     *)
(* moment of the CAS (the state is then what was loaded); a CAS that fails *)
(* changes nothing and the loop loads again.                               *)
(***************************************************************************)
mutexLocked == 1
mutexWoken == 2
mutexStarving == 4
mutexWaiterShift == 3

\* The bits of a mutex state, and its count of waiters (state >> 3).
IsLocked(state) == state % 2 = 1
IsWoken(state) == (state \div mutexWoken) % 2 = 1
IsStarving(state) == (state \div mutexStarving) % 2 = 1
Waiters(state) == Shr(state, mutexWaiterShift)

\* The locals of Lock and Unlock of a call that has left them.
NoLockFrame(f) ==
    [f EXCEPT !.awoke = FALSE, !.starving = "no", !.waits = 0, !.old = 0,
              !.ticket = FALSE]

\* lockSlow: "starving = starving || runtime_nanotime()-waitStartTime >
\* starvationThresholdNs", for the frame f.  How long the goroutine has
\* waited is not in the state: the value of a wake-up is chosen when the
\* code first uses it, and once true it stays true.
StarvingNow(f) ==
    IF f.starving = "unknown" THEN BOOLEAN ELSE {f.starving = "yes"}

\* The frame f when starving has been read as b.
WithStarving(f, b) == [f EXCEPT !.starving = IF b THEN "yes" ELSE "no"]
\* Mutant: Init's closure discards the error of New, as the closure of Next does.
ClosureErrDiscarded(op, r) == Nil

\* The err of the caller after the closure ran on r, the result of New: the
\* closure of Init assigns it ("defaultSnowFlake, err = New(opts...)"), the
\* closure of Next discards it ("defaultSnowFlake, _ = New()").
ClosureErr(op, r) == IF op = "Init" THEN r.err ELSE Nil

\* Where a goroutine goes when its once.Do returns.
AfterDo(t) == IF frame[t].op = "Init" THEN "check" ELSE "call"

\* A goroutine calls the package-level Next().
PkgNext(t) ==
    /\ ~crashed
    /\ pc[t] = "idle"
    /\ pc' = [pc EXCEPT ![t] = "do"]
    /\ frame' = [frame EXCEPT ![t].op = "Next", ![t].opts = <<>>,
                              ![t].seen = defaultSnowFlake]
    /\ UNCHANGED <<now, sf, once, defaultSnowFlake, crashed, last, hist,
                   input, output, pkg>>

\* A goroutine calls Init(opts...).
PkgInit(t, opts) ==
    /\ ~crashed
    /\ pc[t] = "idle"
    /\ pc' = [pc EXCEPT ![t] = "do"]
    /\ frame' = [frame EXCEPT ![t].op = "Init", ![t].opts = opts,
                              ![t].seen = defaultSnowFlake]
    /\ UNCHANGED <<now, sf, once, defaultSnowFlake, crashed, last, hist,
                   input, output, pkg>>

\* once.Do: the fast path, "if o.done.Load() == 0".
OnceDo(t) ==
    /\ ~crashed
    /\ pc[t] = "do"
    /\ pc' = [pc EXCEPT ![t] = IF once.done = 0 THEN "doSlow" ELSE AfterDo(t)]
    /\ UNCHANGED <<now, sf, frame, once, defaultSnowFlake, crashed, last, hist,
                   input, output, pkg>>

\* doSlow: o.m.Lock(), one turn of its loop.  A goroutine that has not slept
\* finds the state 0 and takes the mutex (the fast path), or goes through
\* lockSlow; one that was woken comes back here with awoke set.  While the
\* mutex is locked the goroutine may spin, and then flags mutexWoken when
\* there are waiters and none is flagged.  Otherwise it computes the new
\* state; a woken goroutine that finds mutexWoken gone throws "sync:
\* inconsistent mutex state", a fatal error.  With the new state written it
\* has the mutex when the old state was neither locked nor starving, and is
\* a waiter more, on its way to the semaphore, when it was.
DoSlowLock(t) ==
    /\ ~crashed
    /\ pc[t] = "doSlow"
    /\ LET state == once.m.state
           f == frame[t]
           CanFlag == /\ IsLocked(state) /\ ~IsStarving(state)
                      /\ ~f.awoke /\ ~IsWoken(state) /\ Waiters(state) # 0
       IN  \E flag \in {FALSE} \cup {CanFlag} :
             IF flag
             THEN /\ once' = [once EXCEPT !.m.state = state + mutexWoken]
                  /\ frame' = [frame EXCEPT ![t].awoke = TRUE]
                  /\ UNCHANGED <<pc, crashed>>
             ELSE IF f.awoke /\ ~IsWoken(state)
             THEN /\ crashed' = TRUE
                  /\ UNCHANGED <<once, pc, frame>>
             ELSE \E starving \in IF IsLocked(state) THEN StarvingNow(f)
                                   ELSE {FALSE} :
                    LET locked == IF IsStarving(state) \/ IsLocked(state)
                                  THEN state ELSE state + mutexLocked
                        queued == IF IsLocked(state) \/ IsStarving(state)
                                  THEN locked + 2^mutexWaiterShift ELSE locked
                        starved == IF starving /\ IsLocked(state)
                                      /\ ~IsStarving(state)
                                   THEN queued + mutexStarving ELSE queued
                        new == IF f.awoke THEN starved - mutexWoken ELSE starved
                    IN  /\ once' = [once EXCEPT !.m.state = new]
                        /\ IF ~IsLocked(state) /\ ~IsStarving(state)
                           THEN /\ pc' = [pc EXCEPT ![t] = "locked"]
                                /\ frame' = [frame EXCEPT ![t] = NoLockFrame(f)]
                           ELSE /\ pc' = [pc EXCEPT ![t] = "semacquire"]
                                /\ frame' = [frame EXCEPT ![t] =
                                      [(IF IsLocked(state)
                                        THEN WithStarving(f, starving) ELSE f)
                                       EXCEPT !.waits = IF f.waits < 2
                                                        THEN f.waits + 1 ELSE 2]]
                        /\ UNCHANGED crashed
    /\ UNCHANGED <<now, sf, defaultSnowFlake, last, hist, input, output, pkg>>

\* lockSlow: runtime_SemacquireMutex(&m.sema, queueLifo, 1), where queueLifo
\* is true from the second call on.  The goroutine takes a unit of the
\* semaphore when there is one; when there is none it is parked, at the head
\* of the queue (lifo) or at its end, until a Semrelease makes it ready; it
\* then goes on when it was handed a ticket, or tries the semaphore again.
SemacquireMutex(t) ==
    /\ ~crashed
    /\ pc[t] \in {"semacquire", "ready"}
    /\ IF pc[t] = "ready" /\ frame[t].ticket
       THEN /\ pc' = [pc EXCEPT ![t] = "woke"]
            /\ frame' = [frame EXCEPT ![t].ticket = FALSE]
            /\ UNCHANGED once
       ELSE IF once.m.sema > 0
       THEN /\ once' = [once EXCEPT !.m.sema = @ - 1]
            /\ pc' = [pc EXCEPT ![t] = "woke"]
            /\ UNCHANGED frame
       ELSE /\ once' = [once EXCEPT !.asleep = IF frame[t].waits = 2
                                               THEN <<t>> \o @
                                               ELSE Append(@, t)]
            /\ pc' = [pc EXCEPT ![t] = "parked"]
            /\ UNCHANGED frame
    /\ UNCHANGED <<now, sf, defaultSnowFlake, crashed, last, hist, input,
                   output, pkg>>

\* lockSlow, after the semaphore: "starving = ...; old = m.state".  When old
\* is starving the mutex was handed to this goroutine: it throws "sync:
\* inconsistent mutex state" if old is locked, woken or without waiters, and
\* else takes the mutex with AddInt32(&m.state, delta), a step of its own
\* (delta ends the starvation mode when the goroutine is not starving or is
\* the last waiter).  When old is not starving the goroutine goes round the
\* loop with awoke set: it throws when old has no mutexWoken, unless old is
\* locked and it spins.
LockWoke(t) ==
    /\ ~crashed
    /\ pc[t] \in {"woke", "handoff"}
    /\ LET state == once.m.state
           f == [frame[t] EXCEPT !.starving = IF @ = "yes" THEN "yes"
                                              ELSE "unknown"]
       IN  IF pc[t] = "handoff"
           THEN /\ once' = [once EXCEPT !.m.state = state + frame[t].old]
                /\ pc' = [pc EXCEPT ![t] = "locked"]
                /\ frame' = [frame EXCEPT ![t] = NoLockFrame(frame[t])]
                /\ UNCHANGED crashed
           ELSE IF IsStarving(state)
           THEN IF IsLocked(state) \/ IsWoken(state) \/ Waiters(state) = 0
                THEN /\ crashed' = TRUE
                     /\ UNCHANGED <<once, pc, frame>>
                ELSE \E starving \in IF Waiters(state) = 1 THEN {FALSE}
                                      ELSE StarvingNow(f) :
                       /\ frame' = [frame EXCEPT ![t] =
                             [(IF Waiters(state) = 1 THEN f
                               ELSE WithStarving(f, starving))
                              EXCEPT !.old =
                                 mutexLocked - 2^mutexWaiterShift
                                   - (IF ~starving \/ Waiters(state) = 1
                                      THEN mutexStarving ELSE 0)]]
                       /\ pc' = [pc EXCEPT ![t] = "handoff"]
                       /\ UNCHANGED <<once, crashed>>
           ELSE \E throw \in {b \in BOOLEAN :
                                IF b THEN ~IsWoken(state)
                                ELSE IsWoken(state) \/ IsLocked(state)} :
                  IF throw
                  THEN /\ crashed' = TRUE
                       /\ UNCHANGED <<once, pc, frame>>
                  ELSE /\ pc' = [pc EXCEPT ![t] = "doSlow"]
                       /\ frame' = [frame EXCEPT ![t] = [f EXCEPT !.awoke = TRUE]]
                       /\ UNCHANGED <<once, crashed>>
    /\ UNCHANGED <<now, sf, defaultSnowFlake, last, hist, input, output, pkg>>

\* doSlow: "if o.done.Load() == 0 {", the load under o.m.  When it reads 0 the
\* goroutine goes on to "defer o.done.Store(1); f()", else to the deferred
\* Unlock.
DoSlowLoad(t) ==
    /\ ~crashed
    /\ pc[t] = "locked"
    /\ pc' = [pc EXCEPT ![t] = IF once.done = 0 THEN "f" ELSE "unlock"]
    /\ UNCHANGED <<now, sf, frame, once, defaultSnowFlake, crashed, last, hist,
                   input, output, pkg>>

\* doSlow: "f()", where f is "defaultSnowFlake, _ = New()" in Next and
\* "defaultSnowFlake, err = New(opts...)" in Init: the plain write of
\* defaultSnowFlake (nil when New failed), and of err in Init.
DoSlowBody(t) ==
    /\ ~crashed
    /\ pc[t] = "f"
    /\ LET r == New(frame[t].opts)
       IN  /\ r.ok => Len(sf) < MaxHeap
           /\ sf' = IF r.ok THEN Append(sf, r.sf) ELSE sf
           /\ hist' = IF r.ok
                      THEN Append(hist, HistOf(MaxCalls, r.sf))
                      ELSE hist
           /\ defaultSnowFlake' = IF r.ok THEN Len(sf) + 1 ELSE 0
           /\ frame' = [frame EXCEPT ![t].err = ClosureErr(frame[t].op, r)]
           /\ pc' = [pc EXCEPT ![t] = "store"]
    /\ UNCHANGED <<now, once, crashed, last, input, output, pkg>>

\* doSlow: the deferred o.done.Store(1).
DoSlowStore(t) ==
    /\ ~crashed
    /\ pc[t] = "store"
    /\ once' = [once EXCEPT !.done = 1]
    /\ pc' = [pc EXCEPT ![t] = "unlock"]
    /\ UNCHANGED <<now, sf, frame, defaultSnowFlake, crashed, last, hist,
                   input, output, pkg>>

\* doSlow: the deferred o.m.Unlock(): "new := AddInt32(&m.state,
\* -mutexLocked)".  When new is 0 the call is over.  Else unlockSlow begins;
\* unlocking a mutex that was not locked is the runtime's fatal error "sync:
\* unlock of unlocked mutex".
DoSlowUnlock(t) ==
    /\ ~crashed
    /\ pc[t] = "unlock"
    /\ LET new == once.m.state - mutexLocked
       IN  IF new = 0
           THEN /\ once' = [once EXCEPT !.m.state = 0]
                /\ pc' = [pc EXCEPT ![t] = AfterDo(t)]
                /\ UNCHANGED <<frame, crashed>>
           ELSE IF ~IsLocked(new + mutexLocked)
           THEN /\ crashed' = TRUE
                /\ UNCHANGED <<once, pc, frame>>
           ELSE /\ once' = [once EXCEPT !.m.state = new]
                /\ pc' = [pc EXCEPT ![t] = "unlockSlow"]
                /\ frame' = [frame EXCEPT ![t].old = new]
                /\ UNCHANGED crashed
    /\ UNCHANGED <<now, sf, defaultSnowFlake, last, hist, input, output, pkg>>

\* unlockSlow stops when old has no waiter or has a bit set.
NoWakeUp(old) ==
    \/ Waiters(old) = 0
    \/ IsLocked(old) \/ IsWoken(old) \/ IsStarving(old)

\* unlockSlow(new), then runtime_Semrelease.  In normal mode the loop stops
\* when old (new at first, the state loaded again after a CAS that failed)
\* has no waiter or has a bit set; else it takes a waiter off the count and
\* flags mutexWoken, and releases the semaphore.  In starvation mode it
\* releases the semaphore with handoff.  Semrelease adds a unit to the
\* semaphore and makes the goroutine at the head of the queue ready; with
\* handoff it takes the unit for that goroutine and hands it a ticket.
UnlockSlow(t) ==
    /\ ~crashed
    /\ pc[t] \in {"unlockSlow", "semrelease"}
    /\ LET old == frame[t].old
           state == once.m.state
           handoff == IsStarving(old)
           asleep == once.asleep
       IN  IF pc[t] = "unlockSlow" /\ ~handoff
           THEN IF NoWakeUp(old) \/ NoWakeUp(state)
                THEN /\ pc' = [pc EXCEPT ![t] = AfterDo(t)]
                     /\ frame' = [frame EXCEPT ![t].old = 0]
                     /\ UNCHANGED once
                ELSE /\ once' = [once EXCEPT !.m.state =
                                    state - 2^mutexWaiterShift + mutexWoken]
                     /\ pc' = [pc EXCEPT ![t] = "semrelease"]
                     /\ UNCHANGED frame
           ELSE IF asleep = <<>>
           THEN /\ once' = [once EXCEPT !.m.sema = @ + 1]
                /\ pc' = [pc EXCEPT ![t] = AfterDo(t)]
                /\ frame' = [frame EXCEPT ![t].old = 0]
           ELSE /\ once' = [once EXCEPT !.m.sema = IF handoff THEN @ ELSE @ + 1,
                                        !.asleep = Tail(asleep)]
                /\ pc' = [pc EXCEPT ![t] = AfterDo(t),
                                    ![Head(asleep)] = "ready"]
                /\ frame' = [frame EXCEPT ![t].old = 0,
                                          ![Head(asleep)].ticket = handoff]
    /\ UNCHANGED <<now, sf, defaultSnowFlake, crashed, last, hist, input,
                   output, pkg>>

\* Next: "return defaultSnowFlake.Next()".  The method locks this.mu first, a
\* nil pointer dereference when defaultSnowFlake is nil.
PkgCall(t) ==
    /\ ~crashed
    /\ pc[t] = "call"
    /\ IF defaultSnowFlake = 0
       THEN /\ crashed' = TRUE
            /\ UNCHANGED <<pc, frame>>
       ELSE /\ pc' = [pc EXCEPT ![t] = "lock"]
            /\ frame' = [frame EXCEPT ![t].this = defaultSnowFlake]
            /\ UNCHANGED crashed
    /\ UNCHANGED <<now, sf, once, defaultSnowFlake, last, hist, input, output, pkg>>

\* The method call of the package-level Next gets the mutex.
PkgLock(t) ==
    /\ pc[t] = "lock"
    /\ Lock(t, frame[t].this)

\* Init returns err to its caller.
InitReturn(t) ==
    /\ pc' = [pc EXCEPT ![t] = "idle"]
    /\ frame' = [frame EXCEPT ![t] = ZeroFrame]
    /\ pkg' = [failed |-> frame[t].err # Nil,
               init |-> <<[opts |-> frame[t].opts, err |-> frame[t].err,
                           fresh |-> frame[t].seen = 0, retry |-> pkg.failed]>>,
               conf |-> IF pkg.failed /\ New(frame[t].opts).ok
                        THEN <<frame[t].opts>> ELSE pkg.conf]

\* Mutant: Init returns its error without resetting once.
InitCheckNoReset(t) ==
    /\ ~crashed
    /\ pc[t] = "check"
    /\ InitReturn(t)
    /\ UNCHANGED <<now, sf, once, defaultSnowFlake, crashed, last, hist, input,
                   output>>

\* Init: "if err != nil {": with an error Init goes on to zero once, with
\* none it returns.
InitCheck(t) ==
    /\ ~crashed
    /\ pc[t] = "check"
    /\ IF frame[t].err # Nil
       THEN /\ pc' = [pc EXCEPT ![t] = "zero"]
            /\ frame' = [frame EXCEPT ![t].zero = {"done", "state", "sema"}]
            /\ UNCHANGED pkg
       ELSE InitReturn(t)
    /\ UNCHANGED <<now, sf, once, defaultSnowFlake, crashed, last, hist, input,
                   output>>

\* The Once o with the field of that name zeroed.
Zeroed(o, field) ==
    IF field = "done" THEN [o EXCEPT !.done = 0]
    ELSE IF field = "state" THEN [o EXCEPT !.m.state = 0]
    ELSE [o EXCEPT !.m.sema = 0]

\* Init: "once = sync.Once{}", one of its stores: a plain write of 0 to
\* once.done, once.m.state or once.m.sema.  After the last one, "return err".
OnceZero(t) ==
    /\ ~crashed
    /\ pc[t] = "zero"
    /\ \E field \in frame[t].zero :
          /\ once' = Zeroed(once, field)
          /\ IF frame[t].zero = {field}
             THEN InitReturn(t)
             ELSE /\ frame' = [frame EXCEPT ![t].zero = @ \ {field}]
                  /\ UNCHANGED <<pc, pkg>>
    /\ UNCHANGED <<now, sf, defaultSnowFlake, crashed, last, hist, input, output>>

(***************************************************************************)
(* SpecSingleton: the goroutines call the package-level Next and Init.     *)
(* The calls are bounded (MaxCalls ids, MaxHeap generators), so the        *)
(* sequence cannot wrap and getNextMillisecond is never entered.           *)
(***************************************************************************)
InitOptionLists == {<<WithDataCenter(19)>>, <<WithMachine(kMaxMachine + 1)>>}

InitSingleton ==
    /\ now \in ClockValues
    /\ sf = <<>>
    /\ hist = <<>>
    /\ InitShared
    /\ input = <<>>
    /\ output = <<>>

\* The default generator, if there is one, may still be called.
DefaultCallsLeft ==
    IF defaultSnowFlake = 0 THEN TRUE ELSE CallsLeft(defaultSnowFlake)

NextSingleton ==
    \/ Tick
    \/ \E t \in Threads : DefaultCallsLeft /\ PkgNext(t)
    \/ \E t \in Threads, opts \in InitOptionLists : PkgInit(t, opts)
    \/ \E t \in Threads : OnceDo(t)
    \/ \E t \in Threads : DoSlowLock(t)
    \/ \E t \in Threads : SemacquireMutex(t)
    \/ \E t \in Threads : LockWoke(t)
    \/ \E t \in Threads : DoSlowLoad(t)
    \/ \E t \in Threads : DoSlowBody(t)
    \/ \E t \in Threads : DoSlowStore(t)
    \/ \E t \in Threads : DoSlowUnlock(t)
    \/ \E t \in Threads : UnlockSlow(t)
    \/ \E t \in Threads : PkgCall(t)
    \/ \E t \in Threads : PkgLock(t)
    \/ \E t \in Threads : NextRead(t)
    \/ \E t \in Threads : NextEncode(t)
    \/ \E t \in Threads : InitCheck(t)
    \/ \E t \in Threads : OnceZero(t)

SpecSingleton == InitSingleton /\ [][NextSingleton]_vars

(***************************************************************************)
(* C10.  First use wins: an Init call that begins when the default         *)
(* generator exists leaves it as it is: the same object, with the same     *)
(* fields.                                                                 *)
(***************************************************************************)
\* Goroutine t takes a step of an Init call that began after the default
\* generator was made.
LateInitStep(t) ==
    /\ frame[t].op = "Init"
    /\ frame[t].seen # 0
    /\ pc'[t] # pc[t]

C10_LateInitChangesNothing ==
    [][\A t \in Threads :
          LateInitStep(t) =>
              /\ defaultSnowFlake' = defaultSnowFlake
              /\ defaultSnowFlake # 0 =>
                    sf'[defaultSnowFlake] = sf[defaultSnowFlake]]_vars

(***************************************************************************)
(* SpecSerial: the package-level Next and Init called one after the other  *)
(* (by any goroutine: a call begins when no other call is in progress).    *)
(***************************************************************************)
SerialOptionLists ==
    { <<>>,
      <<WithDataCenter(19), WithMachine(21)>>,
      <<WithTimeOffset(TimeAt(NanosPerMilli))>>,
      <<WithDataCenter(kMaxDataCenter + 1)>>,
      <<WithDataCenter(19), WithMachine(-1)>> }

\* No goroutine but t is inside a call.
Alone(t) == \A u \in Threads \ {t} : pc[u] = "idle"

NextSerial ==
    \/ Tick
    \/ \E t \in Threads : Alone(t) /\ DefaultCallsLeft /\ PkgNext(t)
    \/ \E t \in Threads, opts \in SerialOptionLists : Alone(t) /\ PkgInit(t, opts)
    \/ \E t \in Threads : OnceDo(t)
    \/ \E t \in Threads : DoSlowLock(t)
    \/ \E t \in Threads : DoSlowLoad(t)
    \/ \E t \in Threads : DoSlowBody(t)
    \/ \E t \in Threads : DoSlowStore(t)
    \/ \E t \in Threads : DoSlowUnlock(t)
    \/ \E t \in Threads : PkgCall(t)
    \/ \E t \in Threads : PkgLock(t)
    \/ \E t \in Threads : NextRead(t)
    \/ \E t \in Threads : NextEncode(t)
    \/ \E t \in Threads : InitCheck(t)
    \/ \E t \in Threads : OnceZero(t)

SpecSerial == InitSingleton /\ [][NextSerial]_vars

\* An Init call has returned; the one that returned last.
InitReturned == pkg.init # <<>>
LastInit == pkg.init[1]

(***************************************************************************)
(* C11.  Init fails like New: whenever Init(options) is called, it returns *)
(* an error exactly when New(options) returns one, and the same error.     *)
(* As stated, for every call; as amended, for the calls that begin while   *)
(* there is no default generator yet.                                      *)
(***************************************************************************)
C11_InitFailsLikeNew ==
    InitReturned => LastInit.err = New(LastInit.opts).err

C11_FirstInitFailsLikeNew ==
    (InitReturned /\ LastInit.fresh) => LastInit.err = New(LastInit.opts).err

\* The second option is the bad one, and Init returned its error.
C11_Witness ==
    /\ InitReturned
    /\ LastInit.fresh
    /\ LastInit.opts = <<WithDataCenter(19), WithMachine(-1)>>
    /\ LastInit.err = ErrWorkerNotAllowed

(***************************************************************************)
(* C12.  Init retry after failure: when an Init call has returned a        *)
(* configuration error, the singleton is as before any initialization      *)
(* (once is the zero Once, there is no default generator); the Init with   *)
(* valid options that follows returns nil, and from then on the default    *)
(* generator carries those options and is the one every package-level      *)
(* Next runs on.                                                           *)
(***************************************************************************)
\* The generator s has the identity and the offset of c.
Carries(s, c) ==
    /\ s.dataCenter = c.dataCenter
    /\ s.machine = c.machine
    /\ s.timeOffset = c.timeOffset

C12_InitRetryAfterFailure ==
    /\ (pkg.failed /\ \A t \in Threads : pc[t] = "idle")
          => (once = ZeroOnce /\ defaultSnowFlake = 0)
    /\ (InitReturned /\ LastInit.retry /\ New(LastInit.opts).ok)
          => (LastInit.err = Nil /\ pkg.conf = <<LastInit.opts>>)
    /\ pkg.conf # <<>>
          => /\ defaultSnowFlake # 0
             /\ Carries(sf[defaultSnowFlake], New(pkg.conf[1]).sf)
             /\ \A t \in Threads :
                   pc[t] \in {"lock", "read", "spin", "encode"}
                       => frame[t].this = defaultSnowFlake
             /\ (last.inst # 0 /\ last.ok)
                   => /\ DataCenter(last.ret) = New(pkg.conf[1]).sf.dataCenter
                      /\ Machine(last.ret) = New(pkg.conf[1]).sf.machine

\* After the retry, a package-level Next returned an id with the identity
\* the retry configured.
C12_Witness ==
    /\ pkg.conf = << <<WithDataCenter(19), WithMachine(21)>> >>
    /\ last.inst = defaultSnowFlake
    /\ last.ok
    /\ DataCenter(last.ret) = 19
    /\ Machine(last.ret) = 21

(***************************************************************************)
(* C13.  Race-free initialization of the singleton: under every            *)
(* interleaving of package-level Next and Init calls, one caller           *)
(* constructs the default generator (no second generator is ever made),    *)
(* no caller gets past once.Do before there is a default generator, the    *)
(* process does not die, and every package-level Next runs its method on   *)
(* the one default generator.                                              *)
(***************************************************************************)
C13_RaceFreeInit ==
    /\ ~crashed
    /\ Len(sf) <= 1
    /\ \A t \in Threads :
          /\ pc[t] = "call" => defaultSnowFlake # 0
          /\ pc[t] \in {"lock", "read", "spin", "encode"}
                => (frame[t].this # 0 /\ frame[t].this = defaultSnowFlake)

(***************************************************************************)
(* SpecCalls: one generator with the callers that wait for its mutex in    *)
(* the state: a goroutine calls p.Next() and blocks in this.mu.Lock()      *)
(* until the mutex is free.  The generator is taken up where the sequence  *)
(* of its millisecond has run out (it has returned 4096 ids in a           *)
(* millisecond the clock has reached), and returns at most MaxCalls ids    *)
(* more, so that the exhaustion wait is the next call in that millisecond. *)
(***************************************************************************)
\* The generator g after the call that stamped millisecond with sequence.
Aged(g, millisecond, sequence) ==
    [g EXCEPT !.millisecond = millisecond, !.sequence = sequence]

\* The history of the generator g as that call left it; the ids are counted
\* and kept from here on.
AgedHist(cap, g) ==
    [cap |-> cap, first |-> <<>>, n |-> 0, some |-> TRUE,
     latest |-> Encode(g.millisecond, g),
     left |-> [millisecond |-> g.millisecond, sequence |-> g.sequence],
     run |-> RunOver, built |-> Identity(g), applied |-> FALSE]

InitCalls ==
    /\ now \in ClockValues
    /\ \E millisecond \in 1 .. GetMillisecond :
          LET g == Aged(New(<<>>).sf, millisecond, kMaxSequence)
          IN  /\ sf = <<g>>
              /\ hist = <<AgedHist(MaxCalls, g)>>
    /\ InitShared
    /\ input = <<>>
    /\ output = <<>>

\* The goroutine calls p.Next() and reaches this.mu.Lock().
CallMethod(t, p) ==
    /\ ~crashed
    /\ FirstIdle(t)
    /\ p \in DOMAIN sf
    /\ pc' = [pc EXCEPT ![t] = "lock"]
    /\ frame' = [frame EXCEPT ![t].this = p]
    /\ UNCHANGED <<now, sf, once, defaultSnowFlake, crashed, last, hist, input,
                   output, pkg>>

NextCalls ==
    \/ Tick
    \/ ClockBack
    \/ \E opt \in LiveOptions : ApplyTo(1, opt)
    \/ \E t \in Threads : CallsLeft(1) /\ CallMethod(t, 1)
    \/ \E t \in Threads : PkgLock(t)
    \/ \E t \in Threads : NextRead(t)
    \/ \E t \in Threads : Spin(t)
    \/ \E t \in Threads : NextEncode(t)

SpecCalls == InitCalls /\ [][NextCalls]_vars

(***************************************************************************)
(* C14.  Atomic Next: at most one caller at a time is between Lock and     *)
(* Unlock of a generator, it is the one that holds the mutex, the          *)
(* generator's millisecond and sequence change only in its steps, and      *)
(* every call finds the generator as the call that returned before it      *)
(* left it: the calls act one after the other, in the order in which they  *)
(* got the mutex.                                                          *)
(***************************************************************************)
\* The goroutine is in the critical section of p.
InCall(t, p) == pc[t] \in {"read", "spin", "encode"} /\ frame[t].this = p

MutualExclusion ==
    \A p \in DOMAIN sf :
        /\ \A t \in Threads, u \in Threads : (InCall(t, p) /\ InCall(u, p)) => t = u
        /\ \A t \in Threads : InCall(t, p) <=> sf[p].mu = t

\* The call that returned last began from what the call before it left.
SerialResults ==
    Returned => /\ last.prevMs = last.left.millisecond
                /\ last.prevSeq = last.left.sequence

\* A step that changes the generation state of p is a step of its holder.
HolderOnlyMutates ==
    \A p \in DOMAIN sf :
        (sf'[p].millisecond # sf[p].millisecond \/ sf'[p].sequence # sf[p].sequence)
            => \E t \in Threads : InCall(t, p) /\ sf[p].mu = t /\ pc'[t] # pc[t]

C14_AtomicNext ==
    /\ [](MutualExclusion /\ SerialResults)
    /\ [][HolderOnlyMutates]_vars

\* One caller is in the exhaustion wait, holding the mutex, another is
\* blocked in Lock.
C14_Witness ==
    \E t \in Threads, u \in Threads :
        /\ pc[t] = "spin"
        /\ pc[u] = "lock"
        /\ sf[frame[u].this].mu = t

(***************************************************************************)
(* SpecLive: SpecCalls under the scheduling the runtime gives.  The clock  *)
(* ticks while it can; a goroutine that can take its next step takes it;   *)
(* a goroutine blocked in Lock gets the mutex when it is free often        *)
(* enough (sync.Mutex hands the mutex to a waiter that has been starved:   *)
(* its starvation mode).                                                   *)
(***************************************************************************)
\* The step of a goroutine that holds the mutex: its place in Next allows
\* one of the three.
CallStep(t) == NextRead(t) \/ Spin(t) \/ NextEncode(t)

Fairness ==
    /\ WF_vars(Tick)
    /\ \A t \in Threads :
          /\ SF_vars(PkgLock(t))
          /\ WF_vars(CallStep(t))

SpecLive == InitCalls /\ [][NextCalls]_vars /\ Fairness

(***************************************************************************)
(* C16.  Termination of Next: when the clock keeps advancing (from some    *)
(* point on it is not set back), every call of Next returns and releases   *)
(* the mutex, also the calls that were blocked in Lock; a call that has    *)
(* the mutex can always take its next step, except in the exhaustion wait  *)
(* while the clock reads less than the recorded millisecond.               *)
(***************************************************************************)
\* The goroutine holds the mutex and cannot move on.
Stuck(t) ==
    \/ pc[t] = "read" /\ ~ENABLED <<NextRead(t)>>_vars
    \/ pc[t] = "spin" /\ ~KeepWaiting(GetMillisecond, sf[frame[t].this])
                      /\ ~ENABLED <<Spin(t)>>_vars
    \/ pc[t] = "encode" /\ ~ENABLED <<NextEncode(t)>>_vars

C16_NextTerminates ==
    /\ [](\A t \in Threads : ~Stuck(t))
    /\ <>[][~ClockBack]_vars
          => \A t \in Threads :
                (pc[t] # "idle") ~> (pc[t] = "idle" /\ \A p \in DOMAIN sf : sf[p].mu # t)

\* Every call has returned, the last of them from an exhaustion wait in
\* which it had to wait for the clock to come back.
C16_Witness ==
    /\ Returned
    /\ \A t \in Threads : pc[t] = "idle"
    /\ hist[1].n >= 1
    /\ last.spun
    /\ last.waited

(***************************************************************************)
(* C17.  No waiting on regression: a clock read below the recorded         *)
(* millisecond never makes a call go round the wait loop until the clock   *)
(* has caught up, and a call whose first read is below the recorded        *)
(* millisecond returns without entering the wait.                          *)
(***************************************************************************)
C17_NoWaitOnRegression ==
    /\ \A t \in Threads : pc[t] = "spin" => ~frame[t].waited
    /\ Returned => /\ ~last.waited
                   /\ last.obs < last.prevMs => ~last.spun

(***************************************************************************)
(* C15.  Sequence progression: the N-th of N calls in a row that all read  *)
(* the same millisecond on a fresh generator returns an id with sequence   *)
(* (N - 1) mod 4096; a call that reads a millisecond above the recorded    *)
(* one returns sequence 0; a call that reads the recorded millisecond      *)
(* returns the sequence of the id before it plus 1, mod 4096.              *)
(***************************************************************************)
C15_SequenceProgression ==
    /\ (Returned /\ last.run > 0)
          => (last.ok /\ Sequence(last.ret) = (last.run - 1) % 4096)
    /\ (Returned /\ last.obs > last.prevMs)
          => (last.ok /\ Sequence(last.ret) = 0)
    /\ (Returned /\ last.obs = last.prevMs)
          => /\ last.ok
             /\ Sequence(last.ret) = (last.prevSeq + 1) % 4096
             /\ last.hasPrev
                   => Sequence(last.ret) = (Sequence(last.prev) + 1) % 4096

\* The call after the 4096 ids of one millisecond, on a fresh generator.
C15_Witness ==
    /\ ReturnedId
    /\ last.run = 4097
    /\ last.obs = last.prevMs
    /\ Sequence(last.ret) = 0

(***************************************************************************)
(* C18.  A failed call leaves the state unchanged: a call that returns -1  *)
(* leaves the generator with the millisecond, the sequence, the            *)
(* dataCenter, the machine and the time offset it found (and the mutex     *)
(* free), so the call after it begins from the state before the failed     *)
(* call.                                                                   *)
(***************************************************************************)
\* In this step the call of goroutine t returns the sentinel.
FailedReturn(t) ==
    /\ pc[t] \in {"read", "spin", "encode"}
    /\ pc'[t] = "idle"
    /\ ~last'.ok
    /\ last'.ret = -1

C18_FailedCallChangesNothing ==
    /\ []((Returned /\ ~last.ok)
            => /\ hist[last.inst].left.millisecond = last.prevMs
               /\ hist[last.inst].left.sequence = last.prevSeq)
    /\ [][\A t \in Threads :
             FailedReturn(t)
                 => sf'[frame[t].this] = [sf[frame[t].this] EXCEPT !.mu = 0]]_vars

\* The failed call has returned and the generator is as the call found it.
C18_Witness ==
    /\ Returned
    /\ ~last.ok
    /\ last.ret = -1
    /\ sf[last.inst].mu = 0
    /\ sf[last.inst].millisecond = last.prevMs
    /\ sf[last.inst].sequence = last.prevSeq
    /\ last.prevSeq = kMaxSequence

(***************************************************************************)
(* C19.  The recorded millisecond never decreases: no step of any call,    *)
(* under any clock (set back between calls or during the exhaustion        *)
(* wait), lowers the millisecond of a generator, and the sequence is       *)
(* always in 0 .. 4095.                                                    *)
(***************************************************************************)
C19_MillisecondNeverDecreases ==
    /\ [](\A p \in DOMAIN sf : sf[p].sequence \in 0 .. 4095)
    /\ [][\A p \in DOMAIN sf :
             sf'[p].millisecond >= sf[p].millisecond]_vars

\* A call returned an id from an exhaustion wait during which the clock was
\* behind the recorded millisecond.
C19_Witness ==
    /\ ReturnedId
    /\ last.spun
    /\ last.waited
    /\ last.stamped >= last.prevMs
    /\ sf[last.inst].millisecond = last.stamped

=============================================================================
